---- MODULE Spec2Model ----
(***************************************************************************)
(* State-machine model of EnzymeKinetics.tools.parameterestimator:         *)
(* class ParameterEstimator (construction, subsetting, model-set building, *)
(* minimization loop, result table).                                       *)
(*                                                                         *)
(* Concentrations and times are integers.  Quotients (reaction rates and   *)
(* the initial guesses derived from them) are exact fractions <<n, d>> in  *)
(* lowest terms.  An optional Python value is a sequence: <<>> is None and *)
(* <<v>> is the value v.  A 2-D array is a sequence of rows.               *)
(***************************************************************************)
EXTENDS Integers, Sequences, FiniteSets, TLC

VARIABLES
    phase,                      \* "new" | "ready" | "failed" (constructor raised)
    error,                      \* exception raised by the last operation, or "none"
    data,                       \* self.data, the Experiment
    time,                       \* self.time
    initial_substrate,          \* self.initial_substrate
    enzyme,                     \* self.enzyme
    inhibitor,                  \* self.inhibitor (2-D)
    substrate,                  \* self.substrate (2-D)
    product,                    \* self.product (2-D)
    initial_kcat,               \* self.initial_kcat
    initial_Km,                 \* self.initial_Km
    enzyme_inactivation,        \* self.enzyme_inactivation
    subset_substrate,           \* self.subset_substrate
    subset_product,             \* self.subset_product
    subset_enzyme,              \* self.subset_enzyme
    subset_initial_substrate,   \* self.subset_initial_substrate
    subset_time,                \* self.subset_time
    subset_inhibitor,           \* self.subset_inhibitor
    models,                     \* self.models, in dict insertion order (<<>> is None)
    result_dict,                \* self.result_dict, the table rows in order (<<>> is unset)
    call,                       \* arguments of the last fit_models call (<<>> before any)
    fit_log                     \* per model the last fit_models call minimized: the ODE
                                \* initial state of every row, and whether minimize raised

vars == <<phase, error, data, time, initial_substrate, enzyme, inhibitor, substrate,
          product, initial_kcat, initial_Km, enzyme_inactivation, subset_substrate,
          subset_product, subset_enzyme, subset_initial_substrate, subset_time,
          subset_inhibitor, models, result_dict, call, fit_log>>

normalized == <<time, initial_substrate, enzyme, inhibitor, substrate, product,
                initial_kcat, initial_Km>>

subsets == <<subset_substrate, subset_product, subset_enzyme,
             subset_initial_substrate, subset_time, subset_inhibitor>>

(***************************************************************************)
(* Bounds of the model.                                                    *)
(***************************************************************************)
MaxConc == 1          \* raw readings of the wide data family range over -1..MaxConc
AicScale == 2         \* an AIC value a stands for the number a / AicScale
MaxEstimate == 2      \* fitted parameter values range over 0..MaxEstimate

None == <<>>
Some(v) == <<v>>

Abs(x) == IF x < 0 THEN 0 - x ELSE x
Min(a, b) == IF a <= b THEN a ELSE b
Max(a, b) == IF a >= b THEN a ELSE b

RECURSIVE GCD(_, _)
GCD(a, b) == IF b = 0 THEN a ELSE GCD(b, a % b)

\* The fraction n/d (d > 0) in lowest terms.
Frac(n, d) == LET g == GCD(Abs(n), d) IN <<n \div g, d \div g>>

\* np.nanmax of a non-empty set of fractions in lowest terms.
FracMax(S) == CHOOSE f \in S : \A g \in S : g[1] * f[2] <= f[1] * g[2]

(***************************************************************************)
(* The Experiment handed to the constructor.                               *)
(***************************************************************************)
TimeGrid == <<0, 1, 3>>
NumCols == Len(TimeGrid)

Stoichiometries == {"substrate", "product", "undefined"}

Measurements(inits, enzymes, inhibitors, replicas) ==
    [initial_substrate_conc : inits, enzyme_conc : enzymes,
     inhibitor_conc : inhibitors, data : replicas]

\* Sequences of measurements, the i-th drawn from M[shape[i]].
RECURSIVE MeasurementSeqs(_, _)
MeasurementSeqs(shape, M) ==
    IF shape = <<>> THEN {<<>>}
    ELSE {<<m>> \o rest : m \in M[Head(shape)], rest \in MeasurementSeqs(Tail(shape), M)}

\* Experiments whose measurements carry the replicate counts of one of the shapes.
Experiments(stoichiometries, shapes, M) ==
    [stoichiometry : stoichiometries,
     time : {TimeGrid},
     measurements : UNION {MeasurementSeqs(s, M) : s \in shapes}]

(***************************************************************************)
(* _initialize_measurement_data                                            *)
(***************************************************************************)
\* One entry per replica of every measurement, in the order of the two loops.
RECURSIVE ReplicaRows(_)
ReplicaRows(ms) ==
    IF ms = <<>> THEN <<>>
    ELSE LET m == Head(ms)
         IN  [r \in 1..Len(m.data) |->
                 [values |-> m.data[r],
                  initial_substrate |-> m.initial_substrate_conc,
                  enzyme |-> m.enzyme_conc,
                  inhibitor |-> IF m.inhibitor_conc # None
                                THEN m.inhibitor_conc[1] ELSE 0]]
             \o ReplicaRows(Tail(ms))

\* np.repeat(inhibitor, width).reshape(shape): one constant row per replica.
RepeatInhibitor(inh, width) == [i \in 1..Len(inh) |-> [t \in 1..width |-> inh[i]]]

\* Mutant of the mass balance: the difference taken the wrong way round.
MassBalanceReversed(rows, initial) ==
    [i \in 1..Min(Len(rows), Len(initial)) |->
        [t \in 1..Len(rows[i]) |-> rows[i][t] - initial[i]]]

\* zip(rows, initial_substrate): initial_substrate - value, per row and time point.
_calculate_substrate(prod, initial) ==
    [i \in 1..Min(Len(prod), Len(initial)) |->
        [t \in 1..Len(prod[i]) |-> initial[i] - prod[i][t]]]

_calculate_product(subs, initial) ==
    [i \in 1..Min(Len(subs), Len(initial)) |->
        [t \in 1..Len(subs[i]) |-> initial[i] - subs[i][t]]]

\* np.any(array < 0)
AnyNegative(arr) == \E i \in 1..Len(arr) : \E t \in 1..Len(arr[i]) : arr[i][t] < 0

\* Mutant: only the substrate array is checked.
CheckSubstrateOnly(subs, prod) ==
    IF AnyNegative(subs) THEN "ValueError: Substrate" ELSE "none"

_check_negative_concentrations(subs, prod) ==
    IF AnyNegative(subs) THEN "ValueError: Substrate"
    ELSE IF AnyNegative(prod) THEN "ValueError: Product"
    ELSE "none"

(***************************************************************************)
(* _calculate_rates, _calculate_kcat, _calculate_Km                        *)
(***************************************************************************)
\* abs(np.diff(substrate) / np.diff(time)), as <<|dS|, dt>> per row and interval.
_calculate_rates(subs, grid) ==
    [i \in 1..Len(subs) |->
        [j \in 1..(Len(grid) - 1) |->
            <<Abs(subs[i][j + 1] - subs[i][j]), grid[j + 1] - grid[j]>>]]

_calculate_kcat(subs, grid, enz) ==
    LET rates == _calculate_rates(subs, grid)
    IN  FracMax({Frac(rates[i][j][1], rates[i][j][2] * enz[i]) :
                    i \in 1..Len(rates), j \in 1..(Len(grid) - 1)})

_calculate_Km(subs, grid) ==
    LET rates == _calculate_rates(subs, grid)
        top == FracMax({Frac(rates[i][j][1], rates[i][j][2]) :
                           i \in 1..Len(rates), j \in 1..(Len(grid) - 1)})
    IN  Frac(top[1], top[2] * 2)

(***************************************************************************)
(* __init__                                                                *)
(***************************************************************************)
Construct ==
    /\ phase = "new"
    /\ LET rows == ReplicaRows(data.measurements)
           measurement_data == [i \in 1..Len(rows) |-> rows[i].values]
           init == [i \in 1..Len(rows) |-> rows[i].initial_substrate]
           enz == [i \in 1..Len(rows) |-> rows[i].enzyme]
           inh == RepeatInhibitor([i \in 1..Len(rows) |-> rows[i].inhibitor],
                                  Len(measurement_data[1]))
           known == data.stoichiometry \in {"substrate", "product"}
           subs == IF data.stoichiometry = "substrate" THEN measurement_data
                   ELSE _calculate_substrate(measurement_data, init)
           prod == IF data.stoichiometry = "substrate"
                   THEN _calculate_product(measurement_data, init)
                   ELSE measurement_data
           check == _check_negative_concentrations(subs, prod)
       IN  IF ~known
           THEN /\ phase' = "failed"
                /\ error' = "AttributeError"
                /\ UNCHANGED normalized
           ELSE IF check # "none"
           THEN /\ phase' = "failed"
                /\ error' = check
                /\ UNCHANGED normalized
           ELSE /\ phase' = "ready"
                /\ error' = "none"
                /\ time' = data.time
                /\ initial_substrate' = init
                /\ enzyme' = enz
                /\ inhibitor' = inh
                /\ substrate' = subs
                /\ product' = prod
                /\ initial_kcat' = _calculate_kcat(subs, data.time, enz)
                /\ initial_Km' = _calculate_Km(subs, data.time)
    /\ UNCHANGED <<data, enzyme_inactivation, subsets, models, result_dict, call, fit_log>>

(***************************************************************************)
(* _subset_data                                                            *)
(***************************************************************************)
\* A bound of the Python slice [start:stop] on a sequence of length n.
SliceBound(x, n, default) ==
    IF x = None THEN default
    ELSE IF x[1] < 0 THEN Max(x[1] + n, 0)
    ELSE Min(x[1], n)

\* s[start:stop]
PySlice(s, start, stop) ==
    SubSeq(s, SliceBound(start, Len(s), 0) + 1, SliceBound(stop, Len(s), Len(s)))

\* np.where(arr == c)[0], as 1-based positions in increasing order.
Where(arr, c) == SelectSeq([i \in 1..Len(arr) |-> i], LAMBDA i : arr[i] = c)

\* The loop over the filter list: positions appended in the order of the list;
\* <<0>> stands for the ValueError raised at the first unknown concentration.
RECURSIVE FilterIdx(_, _)
FilterIdx(concentrations, init) ==
    IF concentrations = <<>> THEN <<>>
    ELSE IF Where(init, Head(concentrations)) = <<>> THEN <<0>>
    ELSE LET rest == FilterIdx(Tail(concentrations), init)
         IN  IF rest = <<0>> THEN <<0>>
             ELSE Where(init, Head(concentrations)) \o rest

SubsetIdx(initial_substrates) ==
    IF initial_substrates = None \/ Len(initial_substrates[1]) = 0
    THEN [i \in 1..Len(substrate) |-> i]
    ELSE FilterIdx(initial_substrates[1], initial_substrate)

\* arr[idx, start:stop]
TakeRowsSliced(arr, idx, start, stop) ==
    [k \in 1..Len(idx) |-> PySlice(arr[idx[k]], start, stop)]

\* arr[idx]
TakeRows(arr, idx) == [k \in 1..Len(idx) |-> arr[idx[k]]]

_subset_data(initial_substrates, start_time_index, stop_time_index) ==
    LET idx == SubsetIdx(initial_substrates)
    IN  IF idx = <<0>>
        THEN [error |-> "ValueError", substrate |-> <<>>, product |-> <<>>,
              enzyme |-> <<>>, initial_substrate |-> <<>>, time |-> <<>>,
              inhibitor |-> <<>>]
        ELSE [error |-> "none",
              substrate |-> TakeRowsSliced(substrate, idx, start_time_index, stop_time_index),
              product |-> TakeRowsSliced(product, idx, start_time_index, stop_time_index),
              enzyme |-> TakeRows(enzyme, idx),
              initial_substrate |-> TakeRows(initial_substrate, idx),
              time |-> PySlice(time, start_time_index, stop_time_index),
              inhibitor |-> TakeRows(inhibitor, idx)]

(***************************************************************************)
(* _initialize_models                                                      *)
(***************************************************************************)
\* np.all(arr == 0)
AllZero(arr) == \A i \in 1..Len(arr) : \A t \in 1..Len(arr[i]) : arr[i][t] = 0

\* Mutant: the two initial guesses are swapped.
KineticModelSwappedGuesses(name, params, cS, cE, cP, cI, rate_law) ==
    [name |-> name, params |-> params,
     w0 |-> [cS |-> cS, cE |-> cE, cP |-> cP, cI |-> cI],
     kcat_initial |-> initial_Km, Km_initial |-> initial_kcat,
     model |-> rate_law, enzyme_inactivation |-> enzyme_inactivation',
     result |-> None]

\* KineticModel(name=..., params=..., w0={...}, kcat_initial=self.initial_kcat,
\* Km_initial=self.initial_Km, model=..., enzyme_inactivation=self.enzyme_inactivation)
KineticModel(name, params, cS, cE, cP, cI, rate_law) ==
    [name |-> name, params |-> params,
     w0 |-> [cS |-> cS, cE |-> cE, cP |-> cP, cI |-> cI],
     kcat_initial |-> initial_kcat, Km_initial |-> initial_Km,
     model |-> rate_law, enzyme_inactivation |-> enzyme_inactivation',
     result |-> None]

\* The two branches of _initialize_models.
ModelSet(inhibitor_free, subs, prod, enz, inh) ==
    IF inhibitor_free
    THEN << KineticModel("irreversible Michaelis Menten", <<>>,
                         subs, enz, prod, inh, "irreversible_model"),
            KineticModel("competitive product inhibition", <<"K_ic">>,
                         subs, enz, prod, prod, "competitive_product_inhibition_model"),
            KineticModel("uncompetitive product inhibition", <<"K_iu">>,
                         subs, enz, prod, prod, "uncompetitive_product_inhibition_model"),
            KineticModel("non-competitive product inhibition", <<"K_iu", "K_ic">>,
                         subs, enz, prod, prod, "noncompetitive_product_inhibition_model"),
            KineticModel("substrate inhibition", <<"K_iu">>,
                         subs, enz, prod, subs, "substrate_inhibition_model") >>
    ELSE << KineticModel("competitive inhibition", <<"K_ic">>,
                         subs, enz, prod, inh, "competitive_inhibition_model"),
            KineticModel("uncompetitive inhibition", <<"K_iu">>,
                         subs, enz, prod, inh, "uncompetitive_inhibition_model"),
            KineticModel("non-competitive inhibition", <<"K_iu", "K_ic">>,
                         subs, enz, prod, inh, "noncompetitive_inhibition_model"),
            KineticModel("partially competitive inhibition", <<"K_ic", "K_iu">>,
                         subs, enz, prod, inh, "partially_competitive_inhibition_model") >>

\* Mutant: the branch is taken on the inhibitor array handed in (the subset).
InitializeModelsOnSubset(subs, prod, enz, inh) ==
    ModelSet(AllZero(inh), subs, prod, enz, inh)

\* The branch is taken on self.inhibitor, the inhibitor array of the whole dataset.
_initialize_models(subs, prod, enz, inh) ==
    ModelSet(AllZero(inhibitor), subs, prod, enz, inh)

(***************************************************************************)
(* _run_minimization                                                       *)
(***************************************************************************)
\* What lmfit.minimize does with one model is an input: it raises, or it
\* returns a result with an AIC.
\* A fitted parameter of result.params: its name, its value and its standard
\* error (None when lmfit could not estimate it), and the type of the two
\* numbers: "float64" when at least one is a numpy scalar, "float" when both are
\* Python floats.
Parameter(name, value, stderr, dtype) ==
    [name |-> name, value |-> value, stderr |-> stderr, dtype |-> dtype]

\* Parameters with a nonzero value and a standard error.
WellDefined ==
    <<Parameter("k_cat", 1, Some(1), "float64"), Parameter("Km", 1, Some(1), "float64")>>

ReturnedWith(aic, params) == [raised |-> FALSE, aic |-> aic, params |-> params]
Returned(aic) == ReturnedWith(aic, WellDefined)
Raised == [raised |-> TRUE, aic |-> 0, params |-> <<>>]

\* Mutant: the initial state is read from row i, column 0 of the whole dataset.
InitialStatesOfDataset(kineticmodel, subs) ==
    [i \in 1..Len(subs) |->
        <<substrate[i][1], enzyme[i], product[i][1], kineticmodel.w0.cI[i][1]>>]

\* residual(): w0 = (cS[i, 0], cE[i], cP[i, 0], cI[i, 0]) for each row i of the
\* substrate array handed to minimize.
InitialStates(kineticmodel, subs) ==
    [i \in 1..Len(subs) |->
        <<kineticmodel.w0.cS[i][1], kineticmodel.w0.cE[i],
          kineticmodel.w0.cP[i][1], kineticmodel.w0.cI[i][1]>>]

\* Column 0 exists in the three 2-D arrays of w0 (else indexing raises IndexError).
HasFirstColumn(kineticmodel) ==
    /\ Len(kineticmodel.w0.cS[1]) > 0
    /\ Len(kineticmodel.w0.cP[1]) > 0
    /\ Len(kineticmodel.w0.cI[1]) > 0

\* Index of the first model whose minimization raises; Len(ms) + 1 if none does.
FirstRaise(ms, fits) ==
    LET bad == {k \in 1..Len(ms) : ~HasFirstColumn(ms[k]) \/ fits[k].raised}
    IN  IF bad = {} THEN Len(ms) + 1 ELSE CHOOSE k \in bad : \A j \in bad : k <= j

_run_minimization(ms, fits, subs) ==
    LET stop == FirstRaise(ms, fits)
    IN  [models |-> [k \in 1..Len(ms) |->
                        IF k < stop
                        THEN [ms[k] EXCEPT !.result = Some([aic |-> fits[k].aic,
                                                             params |-> fits[k].params])]
                        ELSE ms[k]],
         log |-> [k \in 1..Min(stop, Len(ms)) |->
                        [name |-> ms[k].name,
                         w0 |-> IF HasFirstColumn(ms[k])
                                THEN InitialStates(ms[k], subs) ELSE <<>>,
                         raised |-> k = stop]],
         error |-> IF stop > Len(ms) THEN "none"
                   ELSE IF ~HasFirstColumn(ms[stop]) THEN "IndexError"
                   ELSE "MinimizeError"]

(***************************************************************************)
(* _result_overview                                                        *)
(***************************************************************************)
\* round(a / AicScale): nearest integer, a tie going to the even one.
PyRound(a) ==
    LET q == a \div AicScale
        r == a % AicScale
    IN  IF 2 * r < AicScale THEN q
        ELSE IF 2 * r > AicScale THEN q + 1
        ELSE IF q % 2 = 0 THEN q ELSE q + 1

\* A row put into a table sorted by AIC, after the rows that do not exceed it.
RECURSIVE InsertRow(_, _)
InsertRow(table, row) ==
    IF table = <<>> THEN <<row>>
    ELSE IF Head(table).AIC <= row.AIC THEN <<Head(table)>> \o InsertRow(Tail(table), row)
    ELSE <<row>> \o table

\* sort_values("AIC", ascending=True); rows of equal AIC keep their order (numpy
\* sorts an array of at most 16 elements by insertion).
RECURSIVE SortByAIC(_)
SortByAIC(rows) ==
    IF rows = <<>> THEN <<>>
    ELSE InsertRow(SortByAIC(SubSeq(rows, 1, Len(rows) - 1)), rows[Len(rows)])

\* parameter_mapper: the column a parameter is shown in (units left out).
parameter_mapper ==
    [name \in {"k_cat", "Km", "K_ic", "K_iu", "K_ie"} |->
        CASE name = "k_cat" -> "kcat"
          [] name = "Km" -> "Km"
          [] name = "K_ic" -> "Ki competitive"
          [] name = "K_iu" -> "Ki uncompetitive"
          [] name = "K_ie" -> "ki time-dep enzyme-inactiv."]

\* n / d rounded to the nearest integer, a tie going to the even one (n >= 0, d > 0).
RoundHalfEven(n, d) ==
    LET q == n \div d
        r == n % d
    IN  IF 2 * r < d THEN q
        ELSE IF 2 * r > d THEN q + 1
        ELSE IF q % 2 = 0 THEN q ELSE q + 1

\* try: percentual_stderr = stderr / value * 100; except TypeError: nan.
\* None / value raises TypeError, which is caught.  A division by zero is not a
\* TypeError: two Python floats raise ZeroDivisionError, a numpy scalar gives
\* inf (nan for 0 / 0) with a warning.  The number is kept as the pair
\* <<stderr * 100, value>>.
PercentualStderr(parameter) ==
    IF parameter.stderr = None THEN [kind |-> "nan", ratio |-> <<0, 1>>]
    ELSE IF parameter.value # 0
    THEN [kind |-> "number", ratio |-> <<parameter.stderr[1] * 100, parameter.value>>]
    ELSE IF parameter.dtype = "float" THEN [kind |-> "ZeroDivisionError", ratio |-> <<0, 1>>]
    ELSE IF parameter.stderr[1] = 0 THEN [kind |-> "nan", ratio |-> <<0, 1>>]
    ELSE [kind |-> "inf", ratio |-> <<0, 1>>]

\* f"{value:.5f} +/- {percentual_stderr:.2f}%": the value and the percentage in
\* hundredths, or the text "nan" / "inf" in its place.
FormatParameter(parameter, percentual_stderr) ==
    [column |-> parameter_mapper[parameter.name],
     value |-> parameter.value,
     percent |-> IF percentual_stderr.kind = "number"
                 THEN [text |-> "number",
                       hundredths |-> RoundHalfEven(percentual_stderr.ratio[1] * 100,
                                                    percentual_stderr.ratio[2])]
                 ELSE [text |-> percentual_stderr.kind, hundredths |-> 0]]

\* The cells of one model's row, in the order of result.params.
ParameterDict(model) ==
    [j \in 1..Len(model.result[1].params) |->
        FormatParameter(model.result[1].params[j],
                        PercentualStderr(model.result[1].params[j]))]

\* Some parameter of some model makes the division raise.
DivisionRaises(ms) ==
    \E k \in 1..Len(ms) : \E j \in 1..Len(ms[k].result[1].params) :
        PercentualStderr(ms[k].result[1].params[j]).kind = "ZeroDivisionError"

\* The table (rows sorted by AIC), or the exception that left the loop.
_result_overview(ms) ==
    IF DivisionRaises(ms) THEN [error |-> "ZeroDivisionError", table |-> <<>>]
    ELSE [error |-> "none",
          table |-> SortByAIC([k \in 1..Len(ms) |->
                                  [name |-> ms[k].name,
                                   AIC |-> PyRound(ms[k].result[1].aic),
                                   cells |-> ParameterDict(ms[k])]])]

(***************************************************************************)
(* fit_models                                                              *)
(***************************************************************************)
\* np.any([initial_substrate_concs, start_time_index, stop_time_index]): the
\* truth value of the three arguments (None, 0 and the empty list are false).
AnyGiven(initial_substrate_concs, start_time_index, stop_time_index) ==
    \/ initial_substrate_concs # None /\ Len(initial_substrate_concs[1]) > 0
    \/ start_time_index # None /\ start_time_index[1] # 0
    \/ stop_time_index # None /\ stop_time_index[1] # 0

\* `outcomes[n]` is the set of behaviours of minimize over a set of n models.
fit_models(initial_substrate_concs, start_time_index, stop_time_index, inactivation, outcomes) ==
    /\ phase = "ready"
    /\ enzyme_inactivation' = inactivation
    /\ \E sub \in {IF AnyGiven(initial_substrate_concs, start_time_index, stop_time_index)
                   THEN _subset_data(initial_substrate_concs, start_time_index,
                                     stop_time_index)
                   ELSE [error |-> "none", substrate |-> substrate, product |-> product,
                         enzyme |-> enzyme, initial_substrate |-> initial_substrate,
                         time |-> time, inhibitor |-> inhibitor]} :
          IF sub.error # "none"
          THEN /\ error' = sub.error
               /\ UNCHANGED <<subsets, models, result_dict, call, fit_log>>
          ELSE /\ subset_substrate' = sub.substrate
               /\ subset_product' = sub.product
               /\ subset_enzyme' = sub.enzyme
               /\ subset_initial_substrate' = sub.initial_substrate
               /\ subset_time' = sub.time
               /\ subset_inhibitor' = sub.inhibitor
               /\ call' = Some([initial_substrate_concs |-> initial_substrate_concs,
                                start_time_index |-> start_time_index,
                                stop_time_index |-> stop_time_index,
                                enzyme_inactivation |-> inactivation])
               /\ \E ms \in {_initialize_models(sub.substrate, sub.product, sub.enzyme,
                                                sub.inhibitor)} :
                  \E fits \in outcomes[Len(ms)] :
                  \E run \in {_run_minimization(ms, fits, sub.substrate)} :
                  \E overview \in {IF run.error = "none"
                                    THEN _result_overview(run.models)
                                    ELSE [error |-> run.error, table |-> <<>>]} :
                     /\ models' = run.models
                     /\ fit_log' = run.log
                     /\ error' = overview.error
                     /\ IF overview.error = "none"
                        THEN result_dict' = overview.table
                        ELSE UNCHANGED result_dict
    /\ UNCHANGED <<phase, data, normalized>>

(***************************************************************************)
(* Inputs: experiments, fit_models arguments, minimizer outcomes.          *)
(***************************************************************************)
\* Wide family: every reading of every replica ranges over -1..MaxConc; a
\* measurement with r replicas.
WideMeasurements(r) ==
    Measurements({0, 1}, {1}, {None, Some(0), Some(1)},
                 [1..r -> [1..NumCols -> (0 - 1)..MaxConc]])

\* Small family: fixed replica traces, varied measurement attributes.
ReplicaTraces == << <<0, 1, 2>>, <<1, 2, 2>> >>
Templates ==
    {[initial_substrate_conc |-> 2, enzyme_conc |-> 1, inhibitor_conc |-> None],
     [initial_substrate_conc |-> 2, enzyme_conc |-> 2, inhibitor_conc |-> Some(0)],
     [initial_substrate_conc |-> 3, enzyme_conc |-> 1, inhibitor_conc |-> Some(1)],
     [initial_substrate_conc |-> 3, enzyme_conc |-> 2, inhibitor_conc |-> None],
     [initial_substrate_conc |-> 2, enzyme_conc |-> 1, inhibitor_conc |-> Some(1)]}
SmallMeasurements ==
    [r \in 1..2 |->
        {[initial_substrate_conc |-> m.initial_substrate_conc,
          enzyme_conc |-> m.enzyme_conc, inhibitor_conc |-> m.inhibitor_conc,
          data |-> SubSeq(ReplicaTraces, 1, r)] : m \in Templates}]
SmallExperiments == Experiments(Stoichiometries, {<<2, 1>>}, SmallMeasurements)

\* Two experiments, one without and one with an inhibitor.
RankExperiments ==
    {e \in Experiments({"product"}, {<<1>>}, SmallMeasurements) :
        e.measurements[1].enzyme_conc = 1 /\ e.measurements[1].initial_substrate_conc = 2
        /\ e.measurements[1].inhibitor_conc # Some(0)}

\* fit_models arguments.
Filters == {None, Some(<<>>), Some(<<2>>), Some(<<2, 3>>), Some(<<3, 2>>), Some(<<4>>)}
StartIndexes == {None, Some(0), Some(1), Some(0 - 1)}
StopIndexes == {None, Some(0), Some(2), Some(0 - 1)}

\* AIC values, in units of 1 / AicScale.
AicValues == {0, 1, 2}

\* Every model is fitted; the AICs are distinct and decrease along the model set.
AllFitted == [n \in 1..5 |-> {[k \in 1..n |-> Returned(AicScale * (n - k))]}]

\* Every model is fitted with any of the AIC values, or minimize raises for one
\* model after the models before it were fitted.
AnyOutcome ==
    [n \in 1..5 |->
        [1..n -> {Returned(a) : a \in AicValues}]
        \cup {[j \in 1..n |-> IF j = k THEN Raised ELSE Returned(0)] : k \in 1..n}]

\* The estimates lmfit can return for one parameter: any value up to MaxEstimate,
\* with or without a standard error.
Estimates(name, dtype) ==
    {Parameter(name, value, stderr, dtype) :
        value \in 0..MaxEstimate, stderr \in {None, Some(0), Some(1)}}

\* Every model is fitted; the first or the last model of the set has any
\* estimate for k_cat or for Km.
EstimateOutcomes(n, dtype) ==
    {[k \in 1..n |-> IF k = m THEN ReturnedWith(0, params) ELSE Returned(0)] :
        m \in {1, n},
        params \in {<<a, WellDefined[2]>> : a \in Estimates("k_cat", dtype)}
                   \cup {<<WellDefined[1], b>> : b \in Estimates("Km", dtype)}}
AnyEstimate ==
    [n \in 1..5 |-> EstimateOutcomes(n, "float") \cup EstimateOutcomes(n, "float64")]

Unconstructed(experiment) ==
    /\ phase = "new"
    /\ error = "none"
    /\ data = experiment
    /\ time = <<>>
    /\ initial_substrate = <<>>
    /\ enzyme = <<>>
    /\ inhibitor = <<>>
    /\ substrate = <<>>
    /\ product = <<>>
    /\ initial_kcat = <<>>
    /\ initial_Km = <<>>
    /\ enzyme_inactivation = FALSE
    /\ subset_substrate = <<>>
    /\ subset_product = <<>>
    /\ subset_enzyme = <<>>
    /\ subset_initial_substrate = <<>>
    /\ subset_time = <<>>
    /\ subset_inhibitor = <<>>
    /\ models = None
    /\ result_dict = <<>>
    /\ call = None
    /\ fit_log = <<>>

\* fit_models() with no argument.
FitDefault == fit_models(None, None, None, FALSE, AllFitted)

\* fit_models with a filter list and a time window.
FitSubset ==
    \E f \in Filters, a \in StartIndexes, b \in StopIndexes :
        fit_models(f, a, b, FALSE, AllFitted)

\* fit_models with any behaviour of the minimizer.
RankCalls ==
    {[filter |-> None, stop |-> None, inactivation |-> FALSE],
     [filter |-> None, stop |-> Some(0 - 1), inactivation |-> TRUE],
     [filter |-> Some(<<4>>), stop |-> None, inactivation |-> TRUE]}
FitRanked ==
    \E c \in RankCalls : fit_models(c.filter, None, c.stop, c.inactivation, AnyOutcome)

\* fit_models on the whole dataset with any estimates.
FitEstimated == fit_models(None, None, None, FALSE, AnyEstimate)

Init == \E e \in SmallExperiments : Unconstructed(e)
Next == Construct \/ FitSubset
Spec == Init /\ [][Next]_vars

\* One measurement with two replicas, or two measurements with one replica each.
InitNormalize ==
    \E s \in Stoichiometries :
        \/ \E m \in WideMeasurements(2) :
              Unconstructed([stoichiometry |-> s, time |-> TimeGrid,
                             measurements |-> <<m>>])
        \/ \E m1 \in WideMeasurements(1), m2 \in WideMeasurements(1) :
              Unconstructed([stoichiometry |-> s, time |-> TimeGrid,
                             measurements |-> <<m1, m2>>])
NextNormalize == Construct \/ FitDefault
SpecNormalize == InitNormalize /\ [][NextNormalize]_vars

InitRank == \E e \in RankExperiments : Unconstructed(e)
NextRank == Construct \/ FitRanked
SpecRank == InitRank /\ [][NextRank]_vars

NextOverview == Construct \/ FitEstimated
SpecOverview == InitRank /\ [][NextOverview]_vars

(***************************************************************************)
(* Properties.                                                             *)
(***************************************************************************)
\* The measurement the i-th replica row came from.
RECURSIVE OwnerOf(_, _)
OwnerOf(ms, i) ==
    IF i <= Len(Head(ms).data) THEN Head(ms)
    ELSE OwnerOf(Tail(ms), i - Len(Head(ms).data))

RECURSIVE TotalReplicas(_)
TotalReplicas(ms) ==
    IF ms = <<>> THEN 0 ELSE Len(Head(ms).data) + TotalReplicas(Tail(ms))

Rows == 1..Len(substrate)
Cols == 1..NumCols

\* C1: for every accepted Experiment, in either stoichiometry mode,
\* product[i,t] + substrate[i,t] = initial_substrate[i] for every row i and time
\* index t, and row i carries the initial substrate concentration of the
\* Measurement its replicate came from.
C1_MassBalance ==
    phase = "ready" =>
        /\ Len(substrate) = TotalReplicas(data.measurements)
        /\ Len(product) = Len(substrate)
        /\ Len(initial_substrate) = Len(substrate)
        /\ \A i \in Rows :
              /\ initial_substrate[i] = OwnerOf(data.measurements, i).initial_substrate_conc
              /\ \A t \in Cols : product[i][t] + substrate[i][t] = initial_substrate[i]

\* An accepted product-measured experiment with two measurements of different
\* initial substrate concentration, part of which has reacted.
C1_Witness ==
    /\ phase = "ready"
    /\ data.stoichiometry = "product"
    /\ Len(data.measurements) = 2
    /\ initial_substrate[1] # initial_substrate[2]
    /\ \E i \in Rows : \E t \in Cols : product[i][t] > 0
    /\ \E i \in Rows : \E t \in Cols : substrate[i][t] > 0

\* A reading of the experiment, or its mass-balance counterpart, is negative.
NegativeInData ==
    \E k \in 1..Len(data.measurements) :
        LET m == data.measurements[k]
        IN  \E r \in 1..Len(m.data) : \E t \in 1..Len(m.data[r]) :
                m.data[r][t] < 0 \/ m.initial_substrate_conc - m.data[r][t] < 0

\* C2: with a recognized stoichiometry, construction raises ValueError whenever a
\* raw or derived substrate or product entry is negative, before any model is
\* built or fitted; every estimator fit_models ran on has all entries >= 0.
C2_NegativeRejected ==
    /\ (phase # "new" /\ data.stoichiometry # "undefined" /\ NegativeInData) =>
          /\ phase = "failed"
          /\ error \in {"ValueError: Substrate", "ValueError: Product"}
    /\ phase = "failed" =>
          /\ models = None /\ result_dict = <<>> /\ call = None /\ fit_log = <<>>
    /\ (phase = "ready" \/ models # None \/ call # None) =>
          /\ phase = "ready"
          /\ ~NegativeInData
          /\ \A i \in Rows : \A t \in Cols : substrate[i][t] >= 0 /\ product[i][t] >= 0

\* Construction raised on a product-measured experiment whose readings are all
\* non-negative but exceed the initial substrate concentration.
C2_Witness ==
    /\ phase = "failed"
    /\ error = "ValueError: Substrate"
    /\ data.stoichiometry = "product"
    /\ \A k \in 1..Len(data.measurements) :
          \A r \in 1..Len(data.measurements[k].data) : \A t \in Cols :
              data.measurements[k].data[r][t] >= 0

FiveNames ==
    {"irreversible Michaelis Menten", "competitive product inhibition",
     "uncompetitive product inhibition", "non-competitive product inhibition",
     "substrate inhibition"}
FourNames ==
    {"competitive inhibition", "uncompetitive inhibition",
     "non-competitive inhibition", "partially competitive inhibition"}
ModelNames == {models[k].name : k \in 1..Len(models)}

\* No measurement of the experiment has a nonzero inhibitor concentration.
NoInhibitorInData ==
    \A k \in 1..Len(data.measurements) :
        data.measurements[k].inhibitor_conc \in {None, Some(0)}

\* C3: on a dataset whose rows all have inhibitor concentration zero (absent
\* counted as 0) every fit_models call builds exactly the five inhibitor-free
\* models; on a dataset with a row of nonzero inhibitor concentration every call
\* builds exactly the four true-inhibitor models; the two sets never mix.
C3_ModelSetOfDataset ==
    models # None =>
        /\ Len(models) = Cardinality(ModelNames)
        /\ NoInhibitorInData => ModelNames = FiveNames
        /\ ~NoInhibitorInData => ModelNames = FourNames

\* A windowed fit on a dataset that mixes absent and explicit zero inhibitor.
C3_Witness ==
    /\ call # None
    /\ call[1].start_time_index # None
    /\ \E k \in 1..Len(data.measurements) : data.measurements[k].inhibitor_conc = None
    /\ \E k \in 1..Len(data.measurements) : data.measurements[k].inhibitor_conc = Some(0)
    /\ NoInhibitorInData
    /\ ModelNames = FiveNames

\* The set of values of a sequence.
Values(seq) == {seq[k] : k \in 1..Len(seq)}

\* The subset arrays are the arrays of the whole dataset.
SubsetIsDataset ==
    /\ subset_substrate = substrate
    /\ subset_product = product
    /\ subset_enzyme = enzyme
    /\ subset_initial_substrate = initial_substrate
    /\ subset_time = time
    /\ subset_inhibitor = inhibitor

\* C4 (as claimed): a filter list whose set of values is the set of initial
\* substrate concentrations of the dataset, in any order and without a time
\* window, yields arrays identical to the unsubset arrays (same rows, same order).
C4_FullFilterIsIdentity ==
    (/\ call # None
     /\ call[1].initial_substrate_concs # None
     /\ call[1].start_time_index = None
     /\ call[1].stop_time_index = None
     /\ Values(call[1].initial_substrate_concs[1]) = Values(initial_substrate))
    => SubsetIsDataset

\* What is fitted by every model: the initial guesses and the w0 slots.
ModelInputs(ms) ==
    [k \in 1..Len(ms) |->
        [name |-> ms[k].name, kcat_initial |-> ms[k].kcat_initial,
         Km_initial |-> ms[k].Km_initial, w0 |-> ms[k].w0]]

\* C7: every Model Descriptor built by any fit_models call carries the two
\* initial guesses computed at construction from the whole dataset, and a call
\* repeating the arguments of the call before it builds a model set with the
\* same initial guesses and the same w0 slot assignments.
C7_SameGuesses ==
    [][models' # None =>
          /\ \A kcat \in {_calculate_kcat(substrate, time, enzyme)} :
             \A Km \in {_calculate_Km(substrate, time)} :
             \A k \in 1..Len(models') :
                /\ models'[k].kcat_initial = kcat
                /\ models'[k].Km_initial = Km
          /\ (call # None /\ call' = call) => ModelInputs(models') = ModelInputs(models)
      ]_vars

\* A fit on a window and a selection of rows whose own rates give another guess.
C7_Witness ==
    /\ call # None
    /\ models # None
    /\ Len(subset_substrate) < Len(substrate)
    /\ Len(subset_time) = 2
    /\ _calculate_kcat(subset_substrate, subset_time, subset_enzyme) # initial_kcat
    /\ models[1].kcat_initial = initial_kcat

\* The rows of the dataset the last call selected.
CallIdx == SubsetIdx(call[1].initial_substrate_concs)

\* C8 (as claimed): a fit_models call with start_time_index = k > 0 still takes
\* the ODE initial state of every fitted row from time index 0 of the normalized
\* dataset, not from time index k.
C8_InitialStateAtIndexZero ==
    (call # None /\ call[1].start_time_index # None /\ call[1].start_time_index[1] > 0) =>
        \A j \in 1..Len(fit_log) : \A i \in 1..Len(fit_log[j].w0) :
            /\ fit_log[j].w0[i][1] = substrate[CallIdx[i]][1]
            /\ fit_log[j].w0[i][2] = enzyme[CallIdx[i]]
            /\ fit_log[j].w0[i][3] = product[CallIdx[i]][1]

\* The driver of a model, for dataset row r with the window starting at column c.
Driver(name, r, c) ==
    IF name \in {"competitive product inhibition", "uncompetitive product inhibition",
                 "non-competitive product inhibition"} THEN product[r][c]
    ELSE IF name = "substrate inhibition" THEN substrate[r][c]
    ELSE inhibitor[r][1]

\* C8 (amended): the ODE initial state of every fitted row is (substrate, enzyme,
\* product, driver) at the first time column of the window being fitted, that is
\* at index start_time_index of the normalized dataset (counted as a slice start);
\* when the window is empty no initial state is formed and the first model raises.
C8_InitialStateAtWindowStart ==
    call # None =>
        LET c == SliceBound(call[1].start_time_index, NumCols, 0) + 1
        IN  IF subset_time = <<>>
            THEN /\ Len(fit_log) = 1
                 /\ fit_log[1].w0 = <<>>
                 /\ fit_log[1].raised
            ELSE /\ Len(fit_log) >= 1
                 /\ \A j \in 1..Len(fit_log) :
                       /\ Len(fit_log[j].w0) = Len(CallIdx)
                       /\ \A i \in 1..Len(CallIdx) :
                             fit_log[j].w0[i] =
                                 <<substrate[CallIdx[i]][c], enzyme[CallIdx[i]],
                                   product[CallIdx[i]][c],
                                   Driver(fit_log[j].name, CallIdx[i], c)>>

\* A fit with start_time_index = 1 whose first row started from another
\* concentration than the one it has at time index 0.
C8_Witness ==
    /\ call # None
    /\ call[1].start_time_index = Some(1)
    /\ Len(fit_log) > 1
    /\ fit_log[1].w0 # <<>>
    /\ fit_log[1].w0[1][1] # substrate[CallIdx[1]][1]

\* C9 (as claimed): for every start and stop index, with or without a filter,
\* the fitted time grid and rows are the slice [start:stop] of the normalized
\* time grid and rows.
C9_WindowIsSlice ==
    call # None =>
        /\ subset_time = PySlice(time, call[1].start_time_index, call[1].stop_time_index)
        /\ Len(subset_substrate) = Len(CallIdx)
        /\ Len(subset_product) = Len(CallIdx)
        /\ \A k \in 1..Len(CallIdx) :
              /\ subset_substrate[k] = PySlice(substrate[CallIdx[k]],
                                               call[1].start_time_index,
                                               call[1].stop_time_index)
              /\ subset_product[k] = PySlice(product[CallIdx[k]],
                                             call[1].start_time_index,
                                             call[1].stop_time_index)

\* C10 (as claimed): the five-model set is built if and only if every row
\* selected for the fit has inhibitor concentration zero, otherwise the
\* four-model set.
C10_ModelSetOfSelection ==
    call # None =>
        /\ ModelNames = FiveNames <=> AllZero(subset_inhibitor)
        /\ ModelNames = FourNames <=> ~AllZero(subset_inhibitor)

\* C10 (amended): the models are built on the subset arrays, but the model set
\* is chosen on the whole dataset: the five-model set if and only if every row
\* of the dataset has inhibitor concentration zero, otherwise the four-model
\* set, whose driver is the inhibitor array of the selected rows even when
\* that is all zero.
C10_ModelSetOfWholeDataset ==
    call # None =>
        /\ ModelNames = FiveNames <=> AllZero(inhibitor)
        /\ ModelNames = FourNames <=> ~AllZero(inhibitor)
        /\ \A k \in 1..Len(models) :
              /\ models[k].w0.cS = subset_substrate
              /\ models[k].w0.cE = subset_enzyme
              /\ models[k].w0.cP = subset_product
              /\ ModelNames = FourNames => models[k].w0.cI = subset_inhibitor

\* A filter selected only rows without inhibitor from a dataset that has
\* inhibited rows, and the four-model set was built.
C10_Witness ==
    /\ call # None
    /\ call[1].initial_substrate_concs # None
    /\ ~AllZero(inhibitor)
    /\ AllZero(subset_inhibitor)
    /\ Len(subset_inhibitor) < Len(inhibitor)
    /\ ModelNames = FourNames

\* The last fit_models call ran to its end.
FitCompleted == call # None /\ error = "none"

\* The AIC minimize returned for the model of that name, in units of 1 / AicScale.
AicOf(name) == models[CHOOSE k \in 1..Len(models) : models[k].name = name].result[1].aic

\* The table has exactly one row per model of the model set.
OneRowPerModel ==
    /\ Len(result_dict) = Len(models)
    /\ \A k \in 1..Len(models) :
          Cardinality({r \in 1..Len(result_dict) : result_dict[r].name = models[k].name}) = 1

\* C5: after a completed fit_models call the table has one row per
\* model, its rows are in non-decreasing order of the models' AIC, and the row
\* at index 0 has the minimum AIC of all fitted models.
C5_RankedByAic ==
    FitCompleted =>
        /\ OneRowPerModel
        /\ \A r \in 1..(Len(result_dict) - 1) :
              AicOf(result_dict[r].name) <= AicOf(result_dict[r + 1].name)
        /\ \A k \in 1..Len(models) :
              AicOf(result_dict[1].name) <= models[k].result[1].aic

\* C6: when minimize fails for one model, every other model of the
\* set is still fitted and has its own result.
C6_FailureIsolated ==
    call # None =>
        \A j \in 1..Len(fit_log) :
            fit_log[j].raised =>
                \A k \in 1..Len(models) : k # j => models[k].result # None

\* Every model of the last fit_models call has a result: the fitting loop ended.
AllModelsFitted ==
    /\ call # None
    /\ \A k \in 1..Len(models) : models[k].result # None

\* The cell of the table for parameter j of the model of that name.
CellOf(name, j) ==
    result_dict[CHOOSE r \in 1..Len(result_dict) : result_dict[r].name = name].cells[j]

\* C11: building the result table never raises because of a degenerate relative
\* standard error, and every fitted parameter whose standard error is None or
\* whose value is zero has its percentage rendered as NaN.
C11_DegenerateStderrIsNaN ==
    (AllModelsFitted /\ error \in {"none", "ZeroDivisionError"}) =>
        /\ error = "none"
        /\ \A k \in 1..Len(models) : \A j \in 1..Len(models[k].result[1].params) :
              \A parameter \in {models[k].result[1].params[j]} :
                 (parameter.stderr = None \/ parameter.value = 0) =>
                     CellOf(models[k].name, j).percent.text = "nan"

\* C12: a fit_models call that fails leaves the enzyme_inactivation flag, the
\* subset arrays, the models and the result table as they were before it, so
\* they all stem from the last successful call.
C12_FailedCallKeepsState ==
    [][(phase = "ready" /\ error' # "none") =>
          UNCHANGED <<enzyme_inactivation, subsets, models, result_dict>>]_vars

====
